---- MODULE Spec2Model ----
(***************************************************************************)
(* The analysis run of the ComplexityAnalyzer component (handleAnalyze):   *)
(* start request, SSE stream consumption, report fetch and reconciliation. *)
(* Two variants of the component exist in the repository: the richer one   *)
(* (src/unnamed/part_000, structured log entries, message filter, agent    *)
(* indicator) and the basic one (src/src/components/ComplexityAnalyzer.tsx,*)
(* string logs).  The variable "variant" says which one is running.        *)
(*                                                                         *)
(* The transport (fetch, @microsoft/fetch-event-source) is the environment:*)
(* it answers each request and calls the handlers onopen, onmessage,       *)
(* onerror and onclose of one connection; an onopen that rejects is        *)
(* reported to onerror, and no handler runs after the connection has been  *)
(* aborted or closed.                                                      *)
(*                                                                         *)
(* Spec is the run with every outcome of every request.  PanelSpec is the  *)
(* run along its shortest successful path with reports that carry solution *)
(* steps, for the properties of the results panel.  LateSpec is Spec with  *)
(* a transport that still hands over messages it had received when the     *)
(* handler aborted; FairSpec is Spec under fairness.  MermaidSpec and      *)
(* ViewerSpec are the components MermaidDiagram and LangGraphViewer, each  *)
(* on its own.                                                             *)
(***************************************************************************)
EXTENDS Integers, Sequences, FiniteSets, TLC

\* Messages delivered on one stream (bound of the model).
MaxMsgs == 2

\* msg.data.length > 1000 is filtered (richer variant).
SizeThreshold == 1000
\* logMessage.length < 500 is logged as plain text (richer variant).
TextCap == 500

\* Steps in one solution_steps value (bound of the model).
MaxSteps == 2

(***************************************************************************)
(* JavaScript values.  Strings held in React state use "null" for null;    *)
(* JSON values are tagged records.                                         *)
(***************************************************************************)
Null == "null"

Undef == [t |-> "undef"]
JNull == [t |-> "null"]
Str(s) == [t |-> "str", v |-> s]
Obj(fs) == [t |-> "obj", f |-> fs]
\* An array, and a string given character by character.
Arr(items) == [t |-> "arr", v |-> items]
Txt(chars) == [t |-> "txt", v |-> chars]
EmptyFields == [k \in {} |-> Undef]

\* o.k : undefined when o has no such property (o is not null/undefined).
Field(o, k) == IF o.t = "obj" /\ k \in DOMAIN o.f THEN o.f[k] ELSE Undef
\* JavaScript truthiness of a JSON value.
Truthy(v) ==
  \/ v.t \in {"obj", "arr"}
  \/ (v.t = "str" /\ v.v # "")
  \/ (v.t = "txt" /\ v.v # <<>>)
\* a || b
JsOr(a, b) == IF Truthy(a) THEN a ELSE b

(***************************************************************************)
(* SSE messages.  A message is described by what the handler reads of it:  *)
(*   kind    "empty" (empty or whitespace only), "object" (parses to a     *)
(*           JSON object), "null" (the JSON text null), "scalar" (parses   *)
(*           to a number, a string or a boolean), "text" (does not parse)  *)
(*   len     msg.data.length;  pad  leading/trailing whitespace, so that   *)
(*           msg.data.trim().length = len - pad                            *)
(*   mark    which code-leakage substrings the text contains               *)
(*   agent, state, status       the fields of the object ("" when absent)  *)
(*   hasMessage, hasProgress    presence of data.message, data.progress    *)
(*   art     data.artifacts.json ("" when absent)                          *)
(*   phrase  the completion phrase the text contains ("" when none)        *)
(***************************************************************************)
Agents == {"report", "pipeline"}
States == {"", "finished", "error"}
Statuses == {"", "completed", "finished", "error"}
Urls == {"u1", "u2"}
Marks == {"none", "typing", "class", "def", "classdef", "triple"}
Phrases == {"", "analysis complete", "pipeline finished"}

Msg(kind, len, pad, mark, agent, state, status, hasMessage, hasProgress, art, phrase) ==
  [kind |-> kind, len |-> len, pad |-> pad, mark |-> mark, agent |-> agent,
   state |-> state, status |-> status, hasMessage |-> hasMessage,
   hasProgress |-> hasProgress, art |-> art, phrase |-> phrase]

\* Agent events: short, no marker.
AgentMsgs ==
  { Msg("object", 40, 0, "none", a, s, st, FALSE, FALSE, u, "") :
      a \in Agents, s \in States, st \in {"", "completed"}, u \in Urls \cup {""} }
\* Objects without an agent field: legacy status, generic message, progress.
LegacyMsgs ==
  { Msg("object", 40, 0, "none", "", "", st, m, p, u, "") :
      st \in Statuses, m \in BOOLEAN, p \in BOOLEAN, u \in {"", "u1"} }
\* Objects at the size threshold, over it, or carrying a marker inside a
\* string value (three double quotes in a row cannot occur in JSON text).
BigMsgs ==
  { Msg("object", l, 0, k, a, s, "", FALSE, FALSE, u, "") :
      l \in {40, SizeThreshold, SizeThreshold + 1}, k \in Marks \ {"triple"},
      a \in {"report", ""}, s \in {"finished"}, u \in {"", "u2"} }
\* Plain text.
TextMsgs ==
  { Msg("text", l, p, k, "", "", "", FALSE, FALSE, "", ph) :
      l \in {40, TextCap - 1, TextCap, TextCap + 2, SizeThreshold + 1}, p \in {0, 2},
      k \in {"none", "triple"}, ph \in Phrases }
OtherMsgs ==
  { Msg("empty", 0, 0, "none", "", "", "", FALSE, FALSE, "", ""),
    Msg("empty", 2, 2, "none", "", "", "", FALSE, FALSE, "", ""),
    Msg("null", 4, 0, "none", "", "", "", FALSE, FALSE, "", ""),
    Msg("scalar", 2, 0, "none", "", "", "", FALSE, FALSE, "", ""),
    Msg("scalar", 40, 0, "none", "", "", "", FALSE, FALSE, "", "pipeline finished") }
Messages == AgentMsgs \cup LegacyMsgs \cup BigMsgs \cup TextMsgs \cup OtherMsgs

\* msg.data.includes(...)
Includes(m, s) ==
  CASE s = "from typing import" -> m.mark = "typing"
    [] s = "class " -> m.mark \in {"class", "classdef"}
    [] s = "def " -> m.mark \in {"def", "classdef"}
    [] s = "triplequote" -> m.mark = "triple"
    [] OTHER -> FALSE

\* !msg.data || msg.data.trim() === ''
IsEmptyMsg(m) == m.len = 0 \/ m.len - m.pad = 0

\* The guard without its size test.
IsFilteredNoSize(m) ==
  \/ Includes(m, "from typing import")
  \/ (Includes(m, "class ") /\ Includes(m, "def "))
  \/ Includes(m, "triplequote")

\* The guard that drops source code and large payloads.
IsFiltered(m) ==
  \/ Includes(m, "from typing import")
  \/ (Includes(m, "class ") /\ Includes(m, "def "))
  \/ Includes(m, "triplequote")
  \/ m.len > SizeThreshold

(***************************************************************************)
(* Log entries.  An entry keeps the place that appended it (site), its     *)
(* severity (type) and its agent; the basic variant logs strings, which    *)
(* carry type "plain".                                                     *)
(***************************************************************************)
LogEntry(site, type, agent) == [site |-> site, type |-> type, agent |-> agent]

\* type: data.state === 'error' ? 'error' : data.state === 'finished' ? 'success' : 'agent'
AgentType(m) ==
  IF m.state = "error" THEN "error" ELSE IF m.state = "finished" THEN "success" ELSE "agent"

\* type: data.status === 'error' ? 'error' : 'info'
StatusType(m) == IF m.status = "error" THEN "error" ELSE "info"

\* The effect of one onmessage call: entries appended, the agent indicator,
\* the captured report URL and whether it called ctrl.abort(); resolve().
Effect(entries, agent, url, done) ==
  [entries |-> entries, agent |-> agent, url |-> url, done |-> done]

\* Capture of the report URL: the report agent's artifact always wins, another
\* one is kept only while nothing has been captured.
CaptureUrl(m, url) ==
  IF m.art # ""
  THEN IF m.agent = "report" THEN m.art
       ELSE IF url = Null THEN m.art ELSE url
  ELSE url

\* isComplete that only knows the report agent.
IsCompleteReportOnly(m) == m.agent = "report" /\ m.state = "finished"

\* isComplete of the agent branch.
IsComplete(m) ==
  \/ (m.agent = "pipeline" /\ m.state = "finished")
  \/ (m.agent = "report" /\ m.state = "finished")

\* data.status === 'completed' || data.status === 'finished'
IsLegacyCompleted(m) == m.status = "completed" \/ m.status = "finished"

\* The text contains one of the completion phrases (case-insensitive).
HasCompletionPhrase(m) ==
  m.phrase = "analysis complete" \/ m.phrase = "pipeline finished"

\* The catch block of the richer onmessage: plain text message.
RichPlainText(m, url, cur) ==
  IF m.len - m.pad > 0 /\ m.len - m.pad < TextCap
  THEN Effect(<<LogEntry("text", "info", "")>>, cur, url, HasCompletionPhrase(m))
  ELSE Effect(<<>>, cur, url, FALSE)

\* An agent branch that logs the details as an entry of their own.
RichObjectDetailsEntry(m, url, cur) ==
  IF m.agent # ""
  THEN Effect(<<LogEntry("agent", AgentType(m), m.agent),
                LogEntry("details", "info", m.agent)>>,
              IF IsComplete(m) THEN Null ELSE m.agent,
              CaptureUrl(m, url), IsComplete(m))
  ELSE IF m.status # ""
  THEN Effect(<<LogEntry("status", StatusType(m), "")>>, cur, url, IsLegacyCompleted(m))
  ELSE IF m.hasMessage
  THEN Effect(<<LogEntry("message", "info", "")>>, cur, url, FALSE)
  ELSE IF m.hasProgress
  THEN Effect(<<LogEntry("progress", "info", "")>>, cur, url, FALSE)
  ELSE Effect(<<>>, cur, url, FALSE)

\* The branch for a parsed object, by the first field present.
RichObject(m, url, cur) ==
  IF m.agent # ""
  THEN Effect(<<LogEntry("agent", AgentType(m), m.agent)>>,
              IF IsComplete(m) THEN Null ELSE m.agent,
              CaptureUrl(m, url), IsComplete(m))
  ELSE IF m.status # ""
  THEN Effect(<<LogEntry("status", StatusType(m), "")>>, cur, url, IsLegacyCompleted(m))
  ELSE IF m.hasMessage
  THEN Effect(<<LogEntry("message", "info", "")>>, cur, url, FALSE)
  ELSE IF m.hasProgress
  THEN Effect(<<LogEntry("progress", "info", "")>>, cur, url, FALSE)
  ELSE Effect(<<>>, cur, url, FALSE)

\* onmessage of the richer variant.
RichOnMessage(m, url, cur) ==
  IF IsEmptyMsg(m) THEN Effect(<<>>, cur, url, FALSE)
  ELSE IF IsFiltered(m) THEN Effect(<<>>, cur, url, FALSE)
  ELSE IF m.kind = "object" THEN RichObject(m, url, cur)
  ELSE IF m.kind = "scalar" THEN Effect(<<>>, cur, url, FALSE)  \* no branch matches
  ELSE RichPlainText(m, url, cur)   \* JSON.parse threw, or data.agent of null threw

\* onmessage of the basic variant: every message is logged.
BasicOnMessage(m, url, cur) ==
  IF m.kind = "object"
  THEN Effect(<<LogEntry("msg", "plain", "")>>, cur, CaptureUrl(m, url),
              IsComplete(m) \/ IsLegacyCompleted(m))
  ELSE IF m.kind = "scalar"
  THEN Effect(<<LogEntry("msg", "plain", "")>>, cur, url, FALSE)  \* String(data)
  ELSE Effect(<<LogEntry("text", "plain", "")>>, cur, url, HasCompletionPhrase(m))

OnMessageEffect(v, m, url, cur) ==
  IF v = "rich" THEN RichOnMessage(m, url, cur) ELSE BasicOnMessage(m, url, cur)

(***************************************************************************)
(* Report payloads returned by the report endpoints.                       *)
(***************************************************************************)
MetricTight == Obj("big_o" :> Str("O(n)") @@ "theta" :> Str("Theta(n)"))
MetricUpper == Obj("big_o" :> Str("O(n^2)"))
MetricEmptyTheta == Obj("big_o" :> Str("O(1)") @@ "theta" :> Str(""))
ComplexityA == Obj("time" :> MetricTight @@ "space" :> MetricUpper)
ComplexityB == Obj("time" :> MetricUpper)
ComplexityC == Obj("time" :> MetricEmptyTheta @@ "space" :> MetricTight)
CasesA == Obj("worst" :> Obj("complexity" :> Str("O(n)")))
DiagramA == Obj("diagram" :> Obj("name" :> Str("flow") @@ "mermaid" :> Str("graph TD; A-->B")))
ValidationA == Obj("status" :> Str("APPROVED"))

\* Inner report contents: empty, flat, nested (with a flat copy beside it),
\* one that names its own analysis id, one with a field called report.
InnerReports ==
  { Obj(EmptyFields),
    Obj("complexity" :> ComplexityA @@ "explanation" :> Str("e1")
        @@ "diagram" :> DiagramA @@ "validation" :> ValidationA
        @@ "pseudocode_normalized" :> Str("for i <- 1 to n")),
    Obj("complexity_analysis" :> Obj("complexity" :> ComplexityB @@ "cases" :> CasesA)
        @@ "complexity" :> ComplexityA @@ "explanation" :> Str("e2")),
    Obj("analysis_id" :> Str("srv-7") @@ "complexity" :> ComplexityC),
    Obj("report" :> Str("markdown") @@ "complexity" :> ComplexityB) }

Wrappers == {"data", "report", "none"}

\* The payload {data: R}, {report: R} or R itself.
Wrap(w, R) == IF w = "none" THEN R ELSE Obj(w :> R)

AnalysisIds == {"abc"}

\* The Report Reconciler: the canonical report of a fetched payload.
Reconcile(reportData, id) ==
  LET finalReport == JsOr(JsOr(Field(reportData, "data"), Field(reportData, "report")),
                          reportData)
      complexityData == JsOr(Field(finalReport, "complexity_analysis"), finalReport)
  IN Obj([analysis_id |-> JsOr(Field(reportData, "analysis_id"), Str(id)),
          complexity_analysis |->
            Obj([complexity |-> JsOr(Field(complexityData, "complexity"),
                                     Field(finalReport, "complexity")),
                 cases |-> JsOr(Field(complexityData, "cases"), Field(finalReport, "cases")),
                 recurrence |-> JsOr(Field(complexityData, "recurrence"),
                                     Field(finalReport, "recurrence"))]),
          explanation |-> Field(finalReport, "explanation"),
          artifacts |-> Field(finalReport, "artifacts"),
          validation |-> Field(finalReport, "validation"),
          hints |-> Field(finalReport, "hints"),
          spec |-> Field(finalReport, "spec"),
          pseudocode_normalized |-> Field(finalReport, "pseudocode_normalized"),
          invariant_or_rule |-> Field(finalReport, "invariant_or_rule")])

(***************************************************************************)
(* The results panel, rendered from the report in state.                   *)
(***************************************************************************)
\* `$${v}$`: the value between math delimiters.
Math(v) == <<"$", v, "$">>

\* A Time Complexity card that shows big_o whenever there is one.
TimeDisplayBigOFirst(r) ==
  LET time == Field(Field(Field(r, "complexity_analysis"), "complexity"), "time")
  IN IF Truthy(Field(time, "big_o")) THEN Math(Field(time, "big_o"))
     ELSE Math(JsOr(Field(time, "theta"), Str("O(?)")))

\* The value of the Time Complexity card.
TimeDisplay(r) ==
  LET time == Field(Field(Field(r, "complexity_analysis"), "complexity"), "time")
  IN IF Truthy(Field(time, "theta")) THEN Math(Field(time, "theta"))
     ELSE Math(JsOr(Field(time, "big_o"), Str("O(?)")))

\* A text shown as it is.
Plain(v) == <<v>>

\* The value of the Space Complexity card.
SpaceDisplay(r) ==
  LET space == Field(Field(Field(r, "complexity_analysis"), "complexity"), "space")
  IN IF Truthy(Field(space, "big_o")) THEN Math(Field(space, "big_o"))
     ELSE Plain(Str("O(?)"))

\* The characters of a step: a letter, a dash, a space.
NL == "\n"
StepTexts ==
  { <<>>, <<"a">>, <<"-", " ">>, <<"-", " ", "a">>, <<"a", "-", " ">>, <<" ", "-">> }
\* Lists of at most n steps.
RECURSIVE StepListsUpTo(_)
StepListsUpTo(n) ==
  IF n = 0 THEN {<<>>}
  ELSE LET shorter == StepListsUpTo(n - 1)
       IN shorter \cup {Append(L, t) : L \in {K \in shorter : Len(K) = n - 1},
                                      t \in StepTexts}
StepLists == StepListsUpTo(MaxSteps)

\* The steps as one string: each step after "- ", the lines joined by newlines.
RECURSIVE DashLines(_)
DashLines(L) ==
  IF L = <<>> THEN <<>>
  ELSE IF Len(L) = 1 THEN <<"-", " ">> \o L[1]
  ELSE <<"-", " ">> \o L[1] \o <<NL>> \o DashLines(Tail(L))

\* The value of solution_steps for a list of steps, in either form.
StepForms == {"array", "string"}
StepsValue(form, L) ==
  IF form = "array" THEN Arr([i \in 1..Len(L) |-> Txt(L[i])]) ELSE Txt(DashLines(L))

\* A report body whose recurrence carries the steps.
BodyWithSteps(form, L) ==
  Obj("complexity_analysis" :>
        Obj("complexity" :> ComplexityA
            @@ "recurrence" :> Obj("relation" :> Str("T(n) = T(n-1) + 1")
                                   @@ "solution_steps" :> StepsValue(form, L))))

\* s.split('\n')
RECURSIVE Split(_)
Split(s) ==
  IF \A i \in 1..Len(s) : s[i] # NL THEN <<s>>
  ELSE LET k == CHOOSE i \in 1..Len(s) : s[i] = NL /\ \A j \in 1..(i - 1) : s[j] # NL
       IN <<SubSeq(s, 1, k - 1)>> \o Split(SubSeq(s, k + 1, Len(s)))

\* A list item that keeps the leading dash.
KeepDash(step) == step

\* step.replace(/^- /, '')
StripDash(step) ==
  IF Len(step) >= 2 /\ step[1] = "-" /\ step[2] = " "
  THEN SubSeq(step, 3, Len(step)) ELSE step

\* The Solution Steps list: whether it is rendered and the text of its items.
StepsView(shown, items) == [shown |-> shown, items |-> items]
SolutionSteps(r) ==
  LET recurrence == Field(Field(r, "complexity_analysis"), "recurrence")
      steps == Field(recurrence, "solution_steps")
  IN IF ~Truthy(recurrence) \/ ~Truthy(steps) THEN StepsView(FALSE, <<>>)
     ELSE IF steps.t = "arr"
     THEN StepsView(TRUE, [i \in 1..Len(steps.v) |-> steps.v[i].v])
     ELSE LET lines == Split(steps.v)
          IN StepsView(TRUE, [i \in 1..Len(lines) |-> StripDash(lines[i])])

(***************************************************************************)
(* Requests and errors.                                                    *)
(***************************************************************************)
ReqStart == <<"POST", "/api/analyze">>
ReqStream(id) == <<"GET", "/api/status?analysis_id=", id>>
DefaultReportUrl(id) == <<"/api/analysis/", id, "/agent/report/json">>
FallbackReportUrl(id) == <<"/api/report/", id>>
ReqGet(url) == <<"GET">> \o url

\* capturedReportUrl || `/api/analysis/${analysis_id}/agent/report/json`
FinalReportUrl(url, id) == IF url # Null THEN <<url>> ELSE DefaultReportUrl(id)

\* Messages of the errors that reach the catch block.
MsgStartFailed == "Failed to start analysis: <statusText>"
MsgSseFailed == "Failed to connect to SSE: <statusText>"
MsgReportFailed == "Failed to fetch report: <statusText>"
MsgNetwork == "Failed to fetch"
MsgTransport == "network error"
MsgSyntax == "Unexpected token < in JSON"
MsgNullRead == "Cannot read properties of null"
MsgDefault == "An unexpected error occurred"

\* A catch block that shows a generic text whatever was caught.
ErrorTextGeneric(message) == MsgDefault

\* err.message || 'An unexpected error occurred'
ErrorText(message) == IF message # "" THEN message ELSE MsgDefault

\* How a fetch can fail before its body is read: network error, invalid JSON.
ThrowingOutcomes == {MsgNetwork, MsgSyntax}

\* The texts the user can submit; a blank one is ignored.
InputCodes == {"", "  ", "code"}
IsBlank(code) == code \in {"", "  "}

(***************************************************************************)
(* State.                                                                  *)
(*   variant                      which component runs                     *)
(*   status, logs, currentAgent, report, errorMsg     React state          *)
(*   pc                 where handleAnalyze is suspended: "idle" (never    *)
(*                      run), "start", "stream", "report", "fallback"      *)
(*                      (awaiting that request or promise), "done"         *)
(*   analysis_id, capturedReportUrl     locals of handleAnalyze            *)
(*   promise, rejection   the stream promise and the error it rejected with*)
(*   conn               the SSE connection: "none", "connecting", "open",  *)
(*                      "closed";  aborted: ctrl.abort() was called        *)
(* History of the current run, read by the properties only:                *)
(*   requests           the requests issued, in order                      *)
(*   nmsgs              messages delivered to onmessage                    *)
(*   lastEvent          the step taken last                                *)
(*   lastMsg            the message handled, when the step taken last was  *)
(*                      an onmessage call (NoMsg otherwise)                *)
(*   endedBy            what settled the stream promise: the message that  *)
(*                      signalled the end, "close" or "error"              *)
(*   caught             the message of the error the catch block received  *)
(*   failure            the failure the environment produced, if any       *)
(*   reportUrlSeen, otherUrlsSeen   artifacts.json URLs carried by the     *)
(*                      processed messages of the report agent / of others *)
(*   fetched            the inner content and wrapper of the report body   *)
(*   stepsSent          the solution steps the backend put into the report *)
(*                      body (PanelSpec only)                              *)
(* MermaidDiagram (MermaidSpec only):                                      *)
(*   mounted            the component is mounted                           *)
(*   chart              the chart prop                                     *)
(*   error, showRaw     React state                                        *)
(*   innerHTML          content of the container div (EmptyHtml when the   *)
(*                      div is empty or not rendered)                      *)
(*   rendering          the mermaid.render calls awaited, oldest first     *)
(* LangGraphViewer (ViewerSpec only):                                      *)
(*   inputCode, viewerStatus, viewerLogs, markdownContent, diagramCode     *)
(*                      React state (status and logs in the source)        *)
(*   timers             for each run started, the next of its three        *)
(*                      setTimeout callbacks, or Fired                     *)
(*   runs               the number of runs started; every log entry and    *)
(*                      markdown part carries the run that wrote it        *)
(*   resetPressed       Reset was pressed and Analyze has not run since    *)
(***************************************************************************)
VARIABLES variant, status, logs, currentAgent, report, errorMsg,
          pc, analysis_id, capturedReportUrl, promise, rejection, conn, aborted,
          requests, nmsgs, lastEvent, lastMsg, endedBy, caught, failure,
          reportUrlSeen, otherUrlsSeen, fetched, stepsSent,
          mounted, chart, error, showRaw, innerHTML, rendering,
          inputCode, viewerStatus, viewerLogs, markdownContent, diagramCode,
          timers, runs, resetPressed

mermaid == <<mounted, chart, error, showRaw, innerHTML, rendering>>
\* The other components of the page.
viewer == <<inputCode, viewerStatus, viewerLogs, markdownContent, diagramCode,
            timers, runs, resetPressed>>
widgets == <<mermaid, viewer>>
\* What a run of Spec leaves alone.
aside == <<stepsSent, widgets>>
\* The state of ComplexityAnalyzer and the history of its run.
analyzer == <<variant, status, logs, currentAgent, report, errorMsg,
              pc, analysis_id, capturedReportUrl, promise, rejection, conn, aborted,
              requests, nmsgs, lastEvent, lastMsg, endedBy, caught, failure,
              reportUrlSeen, otherUrlsSeen, fetched>>
react == <<status, logs, currentAgent, report, errorMsg>>
locals == <<analysis_id, capturedReportUrl>>
stream == <<promise, rejection, conn, aborted>>
msgHistory == <<nmsgs, endedBy, reportUrlSeen, otherUrlsSeen>>
vars == <<variant, status, logs, currentAgent, report, errorMsg,
          pc, analysis_id, capturedReportUrl, promise, rejection, conn, aborted,
          requests, nmsgs, lastEvent, lastMsg, endedBy, caught, failure,
          reportUrlSeen, otherUrlsSeen, fetched, stepsSent,
          mounted, chart, error, showRaw, innerHTML, rendering,
          inputCode, viewerStatus, viewerLogs, markdownContent, diagramCode,
          timers, runs, resetPressed>>

NoMsg == Msg("none", 0, 0, "none", "", "", "", FALSE, FALSE, "", "")
EndClose == Msg("close", 0, 0, "none", "", "", "", FALSE, FALSE, "", "")
EndError == Msg("error", 0, 0, "none", "", "", "", FALSE, FALSE, "", "")
\* What is kept of the message that signalled the end of the stream.
EndSignal(m) ==
  Msg(m.kind, 0, 0, "none", m.agent, m.state, m.status, FALSE, FALSE, "", m.phrase)
NoFetch == [wrap |-> "none", inner |-> JNull, path |-> "none"]

(***************************************************************************)
(* Charts handed to MermaidDiagram.  A chart is the empty string or a text *)
(* that starts with a diagram type or not (prefix), names a node class     *)
(* "call", "callNode" or none (cls), and that mermaid, once the text is    *)
(* sanitized, renders or rejects (ok).                                     *)
(***************************************************************************)
Chart(empty, prefix, cls, ok) ==
  [empty |-> empty, prefix |-> prefix, cls |-> cls, ok |-> ok]
EmptyChart == Chart(TRUE, FALSE, "none", FALSE)
Charts ==
  {EmptyChart} \cup
  { Chart(FALSE, p, k, ok) : p \in BOOLEAN, k \in {"none", "call"}, ok \in BOOLEAN }
\* The class renames and the 'graph TD' prefix added to a text without type.
Sanitize(c) ==
  [c EXCEPT !.cls = IF c.cls = "call" THEN "callNode" ELSE c.cls,
            !.prefix = TRUE]
\* const { svg } = await mermaid.render(id, sanitizedChart)
Svg(sanitizedChart) == <<"svg", sanitizedChart>>
EmptyHtml == <<>>
MsgNoChart == "No chart data provided"
MsgRender == "Parse error"

Rich == variant = "rich"
\* addLog of the richer variant / setLogs of the basic one.
Entry(site, type) == LogEntry(site, IF Rich THEN type ELSE "plain", "")
\* Entries only the richer variant writes.
RichOnly(entries) == IF Rich THEN entries ELSE <<>>

Init ==
  /\ variant \in {"rich", "basic"}
  /\ status = "idle"
  /\ logs = <<>>
  /\ currentAgent = Null
  /\ report = JNull
  /\ errorMsg = Null
  /\ pc = "idle"
  /\ analysis_id = Null
  /\ capturedReportUrl = Null
  /\ promise = "none"
  /\ rejection = ""
  /\ conn = "none"
  /\ aborted = FALSE
  /\ requests = <<>>
  /\ nmsgs = 0
  /\ lastEvent = "init"
  /\ lastMsg = NoMsg
  /\ endedBy = NoMsg
  /\ caught = ""
  /\ failure = ""
  /\ reportUrlSeen = ""
  /\ otherUrlsSeen = {}
  /\ fetched = NoFetch
  /\ stepsSent = <<>>
  /\ mounted = FALSE
  /\ chart = EmptyChart
  /\ error = Null
  /\ showRaw = FALSE
  /\ innerHTML = EmptyHtml
  /\ rendering = <<>>
  /\ inputCode = ""
  /\ viewerStatus = "idle"
  /\ viewerLogs = <<>>
  /\ markdownContent = <<>>
  /\ diagramCode = ""
  /\ timers = <<>>
  /\ runs = 0
  /\ resetPressed = FALSE

\* A catch block that replaces the logs by the error entry.
CatchClearsLogs(message) ==
  /\ status' = "error"
  /\ errorMsg' = ErrorText(message)
  /\ logs' = <<Entry("error", "error")>>
  /\ pc' = "done"
  /\ caught' = message
  /\ UNCHANGED <<currentAgent, report>>

\* The catch block of handleAnalyze, entered with the logs as they are.
Catch(message) ==
  /\ status' = "error"
  /\ errorMsg' = ErrorText(message)
  /\ logs' = Append(logs, Entry("error", "error"))
  /\ pc' = "done"
  /\ caught' = message
  /\ UNCHANGED <<currentAgent, report>>

\* A button that is disabled only while the stream is read.
ButtonEnabledWhileFetching == status # "analyzing"

\* The Analyze button is disabled while a run is in flight.
ButtonEnabled == status # "analyzing" /\ status # "fetching_report"

\* Click on Analyze: reset the state and post the code.
HandleAnalyze ==
  /\ ButtonEnabled
  /\ \E code \in InputCodes : ~IsBlank(code)
  /\ status' = "analyzing"
  /\ logs' = RichOnly(<<LogEntry("start", "info", "")>>)
  /\ report' = JNull
  /\ errorMsg' = Null
  /\ currentAgent' = Null
  /\ pc' = "start"
  /\ analysis_id' = Null
  /\ capturedReportUrl' = Null
  /\ promise' = "none"
  /\ rejection' = ""
  /\ conn' = "none"
  /\ aborted' = FALSE
  /\ requests' = <<ReqStart>>
  /\ nmsgs' = 0
  /\ lastEvent' = "analyze"
  /\ UNCHANGED aside
  /\ lastMsg' = NoMsg
  /\ endedBy' = NoMsg
  /\ caught' = ""
  /\ failure' = ""
  /\ reportUrlSeen' = ""
  /\ otherUrlsSeen' = {}
  /\ fetched' = NoFetch
  /\ UNCHANGED variant

\* The start request returns 2xx with an analysis id: open the event stream.
StartOk ==
  /\ pc = "start"
  /\ \E id \in AnalysisIds :
       /\ analysis_id' = id
       /\ requests' = Append(requests, ReqStream(id))
  /\ logs' = Append(logs, Entry("id", "info"))
  /\ capturedReportUrl' = Null
  /\ promise' = "pending"
  /\ conn' = "connecting"
  /\ pc' = "stream"
  /\ lastEvent' = "startOk"
  /\ UNCHANGED aside
  /\ lastMsg' = NoMsg
  /\ UNCHANGED <<variant, status, currentAgent, report, errorMsg, rejection, aborted,
                 msgHistory, caught, failure, fetched>>

\* The start request returns a non-success status.
StartNotOk ==
  /\ pc = "start"
  /\ Catch(MsgStartFailed)
  /\ failure' = "start"
  /\ lastEvent' = "startNotOk"
  /\ UNCHANGED aside
  /\ lastMsg' = NoMsg
  /\ UNCHANGED <<variant, locals, stream, requests, msgHistory, fetched>>

\* fetch rejects, or the body of the start response is not JSON.
StartThrows ==
  /\ pc = "start"
  /\ \E message \in ThrowingOutcomes : Catch(message)
  /\ failure' = "startThrows"
  /\ lastEvent' = "startThrows"
  /\ UNCHANGED aside
  /\ lastMsg' = NoMsg
  /\ UNCHANGED <<variant, locals, stream, requests, msgHistory, fetched>>

\* onopen with a success response.
OnOpenOk ==
  /\ conn = "connecting"
  /\ conn' = "open"
  /\ logs' = logs \o RichOnly(<<LogEntry("connected", "success", "")>>)
  /\ lastEvent' = "onopen"
  /\ UNCHANGED aside
  /\ lastMsg' = NoMsg
  /\ UNCHANGED <<variant, status, currentAgent, report, errorMsg, pc, locals,
                 promise, rejection, aborted, requests, msgHistory, caught, failure,
                 fetched>>

\* An onerror that resolves the stream promise instead of rejecting it.
OnErrorHandlerResolves(message) ==
  /\ logs' = logs \o RichOnly(<<LogEntry("connerr", "error", "")>>)
  /\ aborted' = TRUE
  /\ conn' = "closed"
  /\ promise' = IF promise = "pending" THEN "resolved" ELSE promise
  /\ rejection' = rejection
  /\ endedBy' = IF promise = "pending" THEN EndError ELSE endedBy
  /\ UNCHANGED <<nmsgs, reportUrlSeen, otherUrlsSeen>>

\* onerror(err): log it, abort, reject.
OnErrorHandler(message) ==
  /\ logs' = logs \o RichOnly(<<LogEntry("connerr", "error", "")>>)
  /\ aborted' = TRUE
  /\ conn' = "closed"
  /\ promise' = IF promise = "pending" THEN "rejected" ELSE promise
  /\ rejection' = IF promise = "pending" THEN message ELSE rejection
  /\ endedBy' = IF promise = "pending" THEN EndError ELSE endedBy
  /\ UNCHANGED <<nmsgs, reportUrlSeen, otherUrlsSeen>>

\* onopen with a non-success response rejects; the transport hands the
\* rejection to onerror.
OnOpenNotOk ==
  /\ conn = "connecting"
  /\ OnErrorHandler(MsgSseFailed)
  /\ failure' = "open"
  /\ lastEvent' = "onopenNotOk"
  /\ UNCHANGED aside
  /\ lastMsg' = NoMsg
  /\ UNCHANGED <<variant, status, currentAgent, report, errorMsg, pc, locals,
                 requests, caught, fetched>>

\* A transport-level error while connecting or reading.
OnError ==
  /\ conn \in {"connecting", "open"}
  /\ OnErrorHandler(MsgTransport)
  /\ failure' = "transport"
  /\ lastEvent' = "onerror"
  /\ UNCHANGED aside
  /\ lastMsg' = NoMsg
  /\ UNCHANGED <<variant, status, currentAgent, report, errorMsg, pc, locals,
                 requests, caught, fetched>>

\* An onclose that treats the close as a failure.
OnCloseRejects ==
  /\ conn = "open"
  /\ logs' = logs \o RichOnly(<<LogEntry("closed", "info", "")>>)
  /\ conn' = "closed"
  /\ promise' = IF promise = "pending" THEN "rejected" ELSE promise
  /\ rejection' = IF promise = "pending" THEN "Stream closed" ELSE rejection
  /\ endedBy' = IF promise = "pending" THEN EndClose ELSE endedBy
  /\ lastEvent' = "onclose"
  /\ UNCHANGED aside
  /\ lastMsg' = NoMsg
  /\ UNCHANGED <<variant, status, currentAgent, report, errorMsg, pc, locals,
                 aborted, requests, nmsgs, reportUrlSeen, otherUrlsSeen,
                 caught, failure, fetched>>

\* The server ends the stream: onclose resolves.
OnClose ==
  /\ conn = "open"
  /\ logs' = logs \o RichOnly(<<LogEntry("closed", "info", "")>>)
  /\ conn' = "closed"
  /\ promise' = IF promise = "pending" THEN "resolved" ELSE promise
  /\ endedBy' = IF promise = "pending" THEN EndClose ELSE endedBy
  /\ lastEvent' = "onclose"
  /\ UNCHANGED aside
  /\ lastMsg' = NoMsg
  /\ UNCHANGED <<variant, status, currentAgent, report, errorMsg, pc, locals,
                 rejection, aborted, requests, nmsgs, reportUrlSeen, otherUrlsSeen,
                 caught, failure, fetched>>

\* The message was parsed and handled as a JSON object.
Processed(m) ==
  /\ m.kind = "object"
  /\ Rich => ~IsEmptyMsg(m) /\ ~IsFiltered(m)

\* An onmessage without its try/catch: a message that is not a JSON object
\* makes the handler throw, which the transport reports to onerror.
OnMessageNoCatch ==
  /\ conn = "open"
  /\ nmsgs < MaxMsgs
  /\ \E m \in Messages :
       LET e == OnMessageEffect(variant, m, capturedReportUrl, currentAgent)
           throws == m.kind \in {"text", "null"}
       IN
       /\ logs' = IF throws THEN logs \o RichOnly(<<LogEntry("connerr", "error", "")>>)
                  ELSE logs \o e.entries
       /\ currentAgent' = e.agent
       /\ capturedReportUrl' = e.url
       /\ aborted' = (aborted \/ e.done \/ throws)
       /\ conn' = IF e.done \/ throws THEN "closed" ELSE conn
       /\ promise' = IF promise # "pending" THEN promise
                     ELSE IF throws THEN "rejected"
                     ELSE IF e.done THEN "resolved" ELSE promise
       /\ rejection' = IF throws /\ promise = "pending" THEN MsgSyntax ELSE rejection
       /\ lastMsg' = m
       /\ endedBy' = IF promise # "pending" THEN endedBy
                     ELSE IF throws THEN EndError
                     ELSE IF e.done THEN EndSignal(m) ELSE endedBy
       /\ reportUrlSeen' =
            IF Processed(m) /\ m.agent = "report" /\ m.art # "" THEN m.art
            ELSE reportUrlSeen
       /\ otherUrlsSeen' =
            IF Processed(m) /\ m.agent # "report" /\ m.art # ""
            THEN otherUrlsSeen \cup {m.art} ELSE otherUrlsSeen
  /\ nmsgs' = nmsgs + 1
  /\ lastEvent' = "onmessage"
  /\ UNCHANGED aside
  /\ UNCHANGED <<variant, status, report, errorMsg, pc, analysis_id,
                 requests, caught, failure, fetched>>

\* An onmessage that resolves at the end of the stream without ctrl.abort().
OnMessageNoAbort ==
  /\ conn = "open"
  /\ nmsgs < MaxMsgs
  /\ \E m \in Messages :
       LET e == OnMessageEffect(variant, m, capturedReportUrl, currentAgent) IN
       /\ logs' = logs \o e.entries
       /\ currentAgent' = e.agent
       /\ capturedReportUrl' = e.url
       /\ promise' = IF e.done /\ promise = "pending" THEN "resolved" ELSE promise
       /\ lastMsg' = m
       /\ endedBy' = IF e.done /\ promise = "pending" THEN EndSignal(m) ELSE endedBy
       /\ reportUrlSeen' =
            IF Processed(m) /\ m.agent = "report" /\ m.art # "" THEN m.art
            ELSE reportUrlSeen
       /\ otherUrlsSeen' =
            IF Processed(m) /\ m.agent # "report" /\ m.art # ""
            THEN otherUrlsSeen \cup {m.art} ELSE otherUrlsSeen
  /\ nmsgs' = nmsgs + 1
  /\ lastEvent' = "onmessage"
  /\ UNCHANGED aside
  /\ UNCHANGED <<variant, status, report, errorMsg, pc, analysis_id, rejection,
                 conn, aborted, requests, caught, failure, fetched>>

\* One message is delivered to onmessage.
OnMessage ==
  /\ conn = "open"
  /\ nmsgs < MaxMsgs
  /\ \E m \in Messages :
       LET e == OnMessageEffect(variant, m, capturedReportUrl, currentAgent) IN
       /\ logs' = logs \o e.entries
       /\ currentAgent' = e.agent
       /\ capturedReportUrl' = e.url
       /\ aborted' = (aborted \/ e.done)
       /\ conn' = IF e.done THEN "closed" ELSE conn
       /\ promise' = IF e.done /\ promise = "pending" THEN "resolved" ELSE promise
       /\ lastMsg' = m
       /\ endedBy' = IF e.done /\ promise = "pending" THEN EndSignal(m) ELSE endedBy
       /\ reportUrlSeen' =
            IF Processed(m) /\ m.agent = "report" /\ m.art # "" THEN m.art
            ELSE reportUrlSeen
       /\ otherUrlsSeen' =
            IF Processed(m) /\ m.agent # "report" /\ m.art # ""
            THEN otherUrlsSeen \cup {m.art} ELSE otherUrlsSeen
  /\ nmsgs' = nmsgs + 1
  /\ lastEvent' = "onmessage"
  /\ UNCHANGED aside
  /\ UNCHANGED <<variant, status, report, errorMsg, pc, analysis_id, rejection,
                 requests, caught, failure, fetched>>

\* A message that was already received when onmessage called ctrl.abort()
\* is handed to onmessage before handleAnalyze resumes.  The handler has no
\* test of its own for a settled promise: it acts as for any message, and
\* its resolve() has no effect.  (Not part of Spec, see LateSpec.)
OnLateMessage ==
  /\ pc = "stream"
  /\ promise = "resolved"
  /\ aborted
  /\ endedBy.kind \in {"object", "text"}
  /\ nmsgs < MaxMsgs
  /\ \E m \in Messages :
       LET e == OnMessageEffect(variant, m, capturedReportUrl, currentAgent) IN
       /\ logs' = logs \o e.entries
       /\ currentAgent' = e.agent
       /\ capturedReportUrl' = e.url
       /\ lastMsg' = m
       /\ reportUrlSeen' =
            IF Processed(m) /\ m.agent = "report" /\ m.art # "" THEN m.art
            ELSE reportUrlSeen
       /\ otherUrlsSeen' =
            IF Processed(m) /\ m.agent # "report" /\ m.art # ""
            THEN otherUrlsSeen \cup {m.art} ELSE otherUrlsSeen
  /\ nmsgs' = nmsgs + 1
  /\ lastEvent' = "onlatemessage"
  /\ UNCHANGED aside
  /\ UNCHANGED <<variant, status, report, errorMsg, pc, analysis_id, stream, endedBy,
                 requests, caught, failure, fetched>>

\* A continuation that forgets setStatus('fetching_report').
StreamResolvedKeepsStatus ==
  /\ pc = "stream"
  /\ promise = "resolved"
  /\ logs' = Append(logs, Entry("fetching", "info"))
  /\ requests' = Append(requests, ReqGet(FinalReportUrl(capturedReportUrl, analysis_id)))
  /\ pc' = "report"
  /\ lastEvent' = "streamResolved"
  /\ UNCHANGED aside
  /\ lastMsg' = NoMsg
  /\ UNCHANGED <<variant, status, currentAgent, report, errorMsg, locals, stream,
                 msgHistory, caught, failure, fetched>>

\* A continuation that also runs when a timer expires on a pending promise.
StreamResolvedOrTimedOut ==
  /\ pc = "stream"
  /\ promise \in {"resolved", "pending"}
  /\ status' = "fetching_report"
  /\ logs' = Append(logs, Entry("fetching", "info"))
  /\ requests' = Append(requests, ReqGet(FinalReportUrl(capturedReportUrl, analysis_id)))
  /\ pc' = "report"
  /\ lastEvent' = "streamResolved"
  /\ UNCHANGED aside
  /\ lastMsg' = NoMsg
  /\ UNCHANGED <<variant, currentAgent, report, errorMsg, locals, stream, msgHistory,
                 caught, failure, fetched>>

\* The stream promise resolved: fetch the report.
StreamResolved ==
  /\ pc = "stream"
  /\ promise = "resolved"
  /\ status' = "fetching_report"
  /\ logs' = Append(logs, Entry("fetching", "info"))
  /\ requests' = Append(requests, ReqGet(FinalReportUrl(capturedReportUrl, analysis_id)))
  /\ pc' = "report"
  /\ lastEvent' = "streamResolved"
  /\ UNCHANGED aside
  /\ lastMsg' = NoMsg
  /\ UNCHANGED <<variant, currentAgent, report, errorMsg, locals, stream, msgHistory,
                 caught, failure, fetched>>

\* A continuation that opens the stream again after a rejection.
StreamRejectedReconnects ==
  /\ pc = "stream"
  /\ promise = "rejected"
  /\ requests' = Append(requests, ReqStream(analysis_id))
  /\ promise' = "pending"
  /\ conn' = "connecting"
  /\ aborted' = FALSE
  /\ lastEvent' = "streamRejected"
  /\ UNCHANGED aside
  /\ lastMsg' = NoMsg
  /\ UNCHANGED <<variant, react, pc, locals, rejection, msgHistory, caught, failure,
                 fetched>>

\* The stream promise rejected: the catch block.
StreamRejected ==
  /\ pc = "stream"
  /\ promise = "rejected"
  /\ Catch(rejection)
  /\ lastEvent' = "streamRejected"
  /\ UNCHANGED aside
  /\ lastMsg' = NoMsg
  /\ UNCHANGED <<variant, locals, stream, requests, msgHistory, failure, fetched>>

\* The run ends with a report.
Complete(value) ==
  /\ report' = value
  /\ status' = "complete"
  /\ logs' = Append(logs, Entry("done", "success"))
  /\ pc' = "done"
  /\ UNCHANGED <<currentAgent, errorMsg, caught>>

\* The preferred fetch returns 2xx with a JSON body: reconcile it.
ReportOk ==
  /\ pc = "report"
  /\ \E w \in Wrappers, R \in InnerReports :
       /\ Complete(Reconcile(Wrap(w, R), analysis_id))
       /\ fetched' = [wrap |-> w, inner |-> R, path |-> "preferred"]
  /\ lastEvent' = "reportOk"
  /\ UNCHANGED aside
  /\ lastMsg' = NoMsg
  /\ UNCHANGED <<variant, locals, stream, requests, msgHistory, failure>>

\* The preferred fetch returns 2xx with the JSON body null: reading
\* reportData.data throws.
ReportNull ==
  /\ pc = "report"
  /\ Catch(MsgNullRead)
  /\ failure' = "reportNull"
  /\ lastEvent' = "reportNull"
  /\ UNCHANGED aside
  /\ lastMsg' = NoMsg
  /\ UNCHANGED <<variant, locals, stream, requests, msgHistory, fetched>>

\* The preferred fetch rejects, or its body is not JSON.
ReportThrows ==
  /\ pc = "report"
  /\ \E message \in ThrowingOutcomes : Catch(message)
  /\ failure' = "reportThrows"
  /\ lastEvent' = "reportThrows"
  /\ UNCHANGED aside
  /\ lastMsg' = NoMsg
  /\ UNCHANGED <<variant, locals, stream, requests, msgHistory, fetched>>

\* A report fetch without the fallback: a non-success status fails the run.
ReportNotOkNoFallback ==
  /\ pc = "report"
  /\ Catch(MsgReportFailed)
  /\ failure' = "reportNotOk"
  /\ lastEvent' = "reportNotOk"
  /\ UNCHANGED aside
  /\ lastMsg' = NoMsg
  /\ UNCHANGED <<variant, locals, stream, requests, msgHistory, fetched>>

\* The preferred fetch returns a non-success status: try /api/report/<id>.
ReportNotOk ==
  /\ pc = "report"
  /\ requests' = Append(requests, ReqGet(FallbackReportUrl(analysis_id)))
  /\ pc' = "fallback"
  /\ failure' = "reportNotOk"
  /\ lastEvent' = "reportNotOk"
  /\ UNCHANGED aside
  /\ lastMsg' = NoMsg
  /\ UNCHANGED <<variant, react, locals, stream, msgHistory, caught, fetched>>

\* Bodies the fallback endpoint returns.
FallbackBodies ==
  { [wrap |-> "none", inner |-> R] : R \in InnerReports }
    \cup { [wrap |-> "data", inner |-> Obj(EmptyFields)] }

\* The fallback fetch returns 2xx: its body becomes the report as it is.
FallbackOk ==
  /\ pc = "fallback"
  /\ \E b \in FallbackBodies :
       /\ Complete(Wrap(b.wrap, b.inner))
       /\ fetched' = [wrap |-> b.wrap, inner |-> b.inner, path |-> "fallback"]
  /\ lastEvent' = "fallbackOk"
  /\ UNCHANGED aside
  /\ lastMsg' = NoMsg
  /\ UNCHANGED <<variant, locals, stream, requests, msgHistory, failure>>

\* The fallback fetch returns 2xx with the JSON body null.
FallbackNull ==
  /\ pc = "fallback"
  /\ Complete(JNull)
  /\ fetched' = [wrap |-> "none", inner |-> JNull, path |-> "fallback"]
  /\ lastEvent' = "fallbackNull"
  /\ UNCHANGED aside
  /\ lastMsg' = NoMsg
  /\ UNCHANGED <<variant, locals, stream, requests, msgHistory, failure>>

\* The fallback fetch returns a non-success status.
FallbackNotOk ==
  /\ pc = "fallback"
  /\ Catch(MsgReportFailed)
  /\ failure' = "fallbackNotOk"
  /\ lastEvent' = "fallbackNotOk"
  /\ UNCHANGED aside
  /\ lastMsg' = NoMsg
  /\ UNCHANGED <<variant, locals, stream, requests, msgHistory, fetched>>

\* The fallback fetch rejects, or its body is not JSON.
FallbackThrows ==
  /\ pc = "fallback"
  /\ \E message \in ThrowingOutcomes : Catch(message)
  /\ failure' = "fallbackThrows"
  /\ lastEvent' = "fallbackThrows"
  /\ UNCHANGED aside
  /\ lastMsg' = NoMsg
  /\ UNCHANGED <<variant, locals, stream, requests, msgHistory, fetched>>

Next ==
  \/ HandleAnalyze
  \/ StartOk
  \/ StartNotOk
  \/ StartThrows
  \/ OnOpenOk
  \/ OnOpenNotOk
  \/ OnError
  \/ OnClose
  \/ OnMessage
  \/ StreamResolved
  \/ StreamRejected
  \/ ReportOk
  \/ ReportNull
  \/ ReportThrows
  \/ ReportNotOk
  \/ FallbackOk
  \/ FallbackNull
  \/ FallbackNotOk
  \/ FallbackThrows

Spec == Init /\ [][Next]_vars

(***************************************************************************)
(* The run with a transport that still hands over the messages it had      *)
(* received when the handler aborted the connection.                       *)
(***************************************************************************)
LateNext ==
  \/ Next
  \/ OnLateMessage

LateSpec == Init /\ [][LateNext]_vars

(***************************************************************************)
(* The run under fairness.  Every HTTP request returns, a settled promise  *)
(* resumes handleAnalyze, and the event stream goes on until it has        *)
(* delivered a message that announces the end of the stream, an error or a *)
(* close; once the last message it delivered is such an announcement it    *)
(* may stay silent and open.                                               *)
(***************************************************************************)
\* The message announces the end of the stream: agent pipeline or report
\* with state finished, or a legacy status completed or finished.
IsEndOfStreamMsg(m) ==
  /\ m.kind = "object"
  /\ \/ (m.agent \in {"pipeline", "report"} /\ m.state = "finished")
     \/ (m.agent = "" /\ m.status \in {"completed", "finished"})

\* await fetch(.../api/analyze) returns.
StartReturns == StartOk \/ StartNotOk \/ StartThrows
\* The request that opens the event stream is answered.
StreamOpens == OnOpenOk \/ OnOpenNotOk
\* The stream delivers an end-of-stream message, an error or a close.
StreamTerminates ==
  /\ ~IsEndOfStreamMsg(lastMsg)
  /\ \/ OnClose
     \/ OnError
     \/ (OnMessage /\ IsEndOfStreamMsg(lastMsg'))
\* The await on the stream promise resumes.
StreamSettled == StreamResolved \/ StreamRejected
\* await fetch(finalReportUrl) returns.
ReportReturns == ReportOk \/ ReportNull \/ ReportThrows \/ ReportNotOk
\* await fetch(.../api/report/<id>) returns.
FallbackReturns == FallbackOk \/ FallbackNull \/ FallbackNotOk \/ FallbackThrows

Fairness ==
  /\ WF_vars(StartReturns)
  /\ WF_vars(StreamOpens)
  /\ WF_vars(StreamTerminates)
  /\ WF_vars(StreamSettled)
  /\ WF_vars(ReportReturns)
  /\ WF_vars(FallbackReturns)

FairSpec == Init /\ [][Next]_vars /\ Fairness

(***************************************************************************)
(* The results panel on its own: runs whose stream is closed by the server *)
(* at once and whose report carries solution steps, as an array or as one  *)
(* string.                                                                 *)
(***************************************************************************)
\* The preferred fetch returns a report with solution steps: reconcile it.
PanelReportOk ==
  /\ pc = "report"
  /\ \E form \in StepForms, L \in StepLists :
       LET body == BodyWithSteps(form, L) IN
       /\ Complete(Reconcile(body, analysis_id))
       /\ fetched' = [wrap |-> "none", inner |-> body, path |-> "preferred"]
       /\ stepsSent' = L
       /\ UNCHANGED widgets
  /\ lastEvent' = "panelReportOk"
  /\ lastMsg' = NoMsg
  /\ UNCHANGED <<variant, locals, stream, requests, msgHistory, failure>>

PanelNext ==
  \/ HandleAnalyze
  \/ StartOk
  \/ OnOpenOk
  \/ OnClose
  \/ StreamResolved
  \/ PanelReportOk

PanelSpec == Init /\ [][PanelNext]_vars

(***************************************************************************)
(* MermaidDiagram.  The effect runs after every commit in which the chart  *)
(* prop changed; the container div, and with it containerRef.current,      *)
(* exists only in a commit whose error state is null.  mermaid settles its *)
(* render calls in the order they were made.                               *)
(***************************************************************************)
MaxRenders == 2

\* containerRef.current: the div of the last commit, if it rendered one.
ContainerRef == IF error = Null THEN "div" ELSE Null

\* renderDiagram up to its await.
RenderDiagram(c) ==
  IF ContainerRef = Null \/ c.empty
  THEN /\ error' = MsgNoChart
       /\ innerHTML' = EmptyHtml
       /\ rendering' = rendering
  ELSE /\ error' = Null
       /\ innerHTML' = innerHTML
       /\ rendering' = Append(rendering, Sanitize(c))

\* The component is mounted with a chart: first commit, then the effect.
Mount ==
  /\ ~mounted
  /\ mounted' = TRUE
  /\ \E c \in Charts :
       /\ chart' = c
       /\ RenderDiagram(c)
  /\ UNCHANGED <<showRaw, analyzer, stepsSent, viewer>>

\* The parent passes another chart: commit, then the effect.
SetChart ==
  /\ mounted
  /\ Len(rendering) < MaxRenders
  /\ \E c \in Charts \ {chart} :
       /\ chart' = c
       /\ RenderDiagram(c)
  /\ UNCHANGED <<mounted, showRaw, analyzer, stepsSent, viewer>>

\* mermaid.render resolves: the svg goes into the container, if there is one.
RenderResolves ==
  /\ rendering # <<>>
  /\ Head(rendering).ok
  /\ innerHTML' = IF ContainerRef # Null THEN Svg(Head(rendering)) ELSE innerHTML
  /\ rendering' = Tail(rendering)
  /\ UNCHANGED <<mounted, chart, error, showRaw, analyzer, stepsSent, viewer>>

\* mermaid.render rejects: the catch block sets the error, and the next
\* commit renders the error view in place of the container.
RenderRejects ==
  /\ rendering # <<>>
  /\ ~Head(rendering).ok
  /\ error' = MsgRender
  /\ innerHTML' = EmptyHtml
  /\ rendering' = Tail(rendering)
  /\ UNCHANGED <<mounted, chart, showRaw, analyzer, stepsSent, viewer>>

\* The "Show raw code" button of the error view.
ToggleRaw ==
  /\ mounted
  /\ error # Null
  /\ showRaw' = ~showRaw
  /\ UNCHANGED <<mounted, chart, error, innerHTML, rendering, analyzer, stepsSent, viewer>>

MermaidNext ==
  \/ Mount
  \/ SetChart
  \/ RenderResolves
  \/ RenderRejects
  \/ ToggleRaw

MermaidSpec == Init /\ [][MermaidNext]_vars

(***************************************************************************)
(* LangGraphViewer.  handleAnalyze has no await: it resets the state,      *)
(* writes the first log entry and schedules three callbacks (500 ms,       *)
(* 1500 ms, 3000 ms).  The callbacks of one run fire in that order; a      *)
(* callback of a later run fires after the callback with the same delay of *)
(* every earlier run.  Nothing in the component calls clearTimeout.        *)
(***************************************************************************)
MaxRuns == 2
\* timers[r] = Fired: the three callbacks of run r have run.
Fired == 4

\* addLog(message), by the run that calls it.
ViewerLog(r, message) == [run |-> r, message |-> message]
\* A piece of markdownContent, by the run that wrote it.
Part(r, text) == [run |-> r, text |-> text]
DiagramText == "graph TD"

\* The textarea.
SetInputCode ==
  /\ \E code \in InputCodes \ {inputCode} : inputCode' = code
  /\ UNCHANGED <<viewerStatus, viewerLogs, markdownContent, diagramCode, timers, runs,
                 resetPressed, analyzer, stepsSent, mermaid>>

\* disabled={status === 'processing' || status === 'streaming'}
AnalyzeEnabled == viewerStatus \notin {"processing", "streaming"}

\* Click on Analyze Agent.
ViewerHandleAnalyze ==
  /\ AnalyzeEnabled
  /\ ~IsBlank(inputCode)
  /\ runs < MaxRuns
  /\ runs' = runs + 1
  /\ viewerStatus' = "streaming"
  /\ viewerLogs' = <<ViewerLog(runs', "Starting analysis...")>>
  /\ markdownContent' = <<>>
  /\ diagramCode' = ""
  /\ timers' = Append(timers, 1)
  /\ resetPressed' = FALSE
  /\ UNCHANGED <<inputCode, analyzer, stepsSent, mermaid>>

\* The callback of run r that is due next, in the order of the clock.
Due(r) ==
  /\ r \in 1..Len(timers)
  /\ timers[r] # Fired
  /\ \A q \in 1..(r - 1) : timers[q] > timers[r]

\* The 500 ms callback.
ParserStarted(r) ==
  /\ viewerLogs' = Append(viewerLogs, ViewerLog(r, "Parser started..."))
  /\ markdownContent' = <<Part(r, "Analysis Started")>>
  /\ UNCHANGED <<viewerStatus, diagramCode>>

\* The 1500 ms callback.
PatternDetected(r) ==
  /\ viewerLogs' = Append(viewerLogs, ViewerLog(r, "Detected pattern: Recursive loop"))
  /\ markdownContent' = Append(markdownContent, Part(r, "Detected recursive loop"))
  /\ UNCHANGED <<viewerStatus, diagramCode>>

\* The 3000 ms callback.
DiagramGenerated(r) ==
  /\ viewerLogs' = viewerLogs \o <<ViewerLog(r, "Generating diagram..."),
                                   ViewerLog(r, "Analysis complete.")>>
  /\ diagramCode' = DiagramText
  /\ markdownContent' = Append(markdownContent, Part(r, "Flow Diagram Generated"))
  /\ viewerStatus' = "complete"

\* A setTimeout callback runs.
TimerFires ==
  /\ \E r \in 1..Len(timers) :
       /\ Due(r)
       /\ CASE timers[r] = 1 -> ParserStarted(r)
            [] timers[r] = 2 -> PatternDetected(r)
            [] OTHER -> DiagramGenerated(r)
       /\ timers' = [timers EXCEPT ![r] = IF timers[r] = 3 THEN Fired ELSE timers[r] + 1]
  /\ UNCHANGED <<inputCode, runs, resetPressed, analyzer, stepsSent, mermaid>>

\* The Reset button.
Reset ==
  /\ viewerStatus' = "idle"
  /\ viewerLogs' = <<>>
  /\ markdownContent' = <<>>
  /\ diagramCode' = ""
  /\ inputCode' = ""
  /\ resetPressed' = TRUE
  /\ UNCHANGED <<timers, runs, analyzer, stepsSent, mermaid>>

\* The Clear Logs button.
ClearLogs ==
  /\ viewerLogs' = <<>>
  /\ UNCHANGED <<inputCode, viewerStatus, markdownContent, diagramCode, timers, runs,
                 resetPressed, analyzer, stepsSent, mermaid>>

ViewerNext ==
  \/ SetInputCode
  \/ ViewerHandleAnalyze
  \/ TimerFires
  \/ Reset
  \/ ClearLogs

ViewerSpec == Init /\ [][ViewerNext]_vars

(***************************************************************************)
(* Properties.                                                             *)
(***************************************************************************)
\* The step just taken was an onmessage call.
AfterOnMessage == lastEvent = "onmessage"
\* An onmessage call is taken in this step.
OnMessageStep == lastEvent' = "onmessage" /\ nmsgs' = nmsgs + 1

\* The message is an object carrying agent "report" and state "finished".
IsReportFinished(m) == m.kind = "object" /\ m.agent = "report" /\ m.state = "finished"
\* The message is exactly {agent: "pipeline", state: "finished"}.
IsPipelineFinished(m) ==
  /\ m.kind = "object" /\ m.agent = "pipeline" /\ m.state = "finished"
  /\ m.len <= 1000 /\ m.mark = "none"
\* The payload is over the size threshold or carries a code-leakage marker.
LooksLikeCode(m) ==
  \/ m.len > 1000
  \/ m.mark = "typing"
  \/ m.mark = "classdef"
  \/ m.mark = "triple"

\* C1: after onmessage has handled any message that carries agent "report"
\* and state "finished", the connection is aborted and the stream promise
\* is resolved.
C1_ReportFinishedEndsStream ==
  (AfterOnMessage /\ IsReportFinished(lastMsg)) => (aborted /\ promise = "resolved")

C3_SameReportForEveryWrapper ==
  (status = "complete" /\ fetched.path = "preferred") =>
    \A w \in Wrappers : report = Reconcile(Wrap(w, fetched.inner), analysis_id)

\* C4: once a stream has ended with {agent: "pipeline", state: "finished"}
\* the promise is resolved, and when the report was then fetched from
\* /api/analysis/<id>/agent/report/json and came back with a report, the run
\* ends with status complete and a non-null report.
C4_EndToEnd ==
  /\ (AfterOnMessage /\ IsPipelineFinished(lastMsg)) => (aborted /\ promise = "resolved")
  /\ ( /\ pc = "done"
       /\ endedBy.agent = "pipeline" /\ endedBy.state = "finished"
       /\ Len(requests) = 3
       /\ requests[3] = <<"GET", "/api/analysis/", analysis_id, "/agent/report/json">>
       /\ fetched.path = "preferred" )
     => (status = "complete" /\ report # JNull)

C4_Witness ==
  /\ pc = "done"
  /\ endedBy.agent = "pipeline" /\ endedBy.state = "finished"
  /\ requests = <<ReqStart, ReqStream("abc"),
                  <<"GET", "/api/analysis/", "abc", "/agent/report/json">> >>
  /\ fetched.path = "preferred"
  /\ nmsgs = 2
  /\ status = "complete"

\* C5 as stated: every change of status is a step of the path
\* analyzing -> fetching_report -> complete | error, or the start of a run.
C5_StrictlyLinear ==
  [][status' # status =>
       \/ status' = "analyzing"
       \/ (status = "analyzing" /\ status' = "fetching_report")
       \/ (status = "fetching_report" /\ status' \in {"complete", "error"})]_vars

\* C5 amended: every change of status is the start of a run, analyzing ->
\* fetching_report, fetching_report -> complete | error, or analyzing ->
\* error; complete is entered only from fetching_report.
C5_LinearWithEarlyError ==
  [][status' # status =>
       \/ (status' = "analyzing" /\ status \in {"idle", "complete", "error"})
       \/ (status = "analyzing" /\ status' = "fetching_report")
       \/ (status = "fetching_report" /\ status' \in {"complete", "error"})
       \/ (status = "analyzing" /\ status' = "error")]_vars

\* A run that failed while its status was still analyzing.
C5_Witness == status = "error" /\ lastEvent = "streamRejected" /\ Len(requests) = 2

\* C6: when onclose settled the stream promise, the promise is resolved, the
\* next step of the run sets status fetching_report and issues the report
\* fetch, and any later error of the run comes from the report phase.
C6_CloseResolves ==
  endedBy = EndClose =>
    /\ promise = "resolved"
    /\ pc = "stream" => status = "analyzing"
    /\ pc # "stream" => (Len(requests) >= 3 /\ requests[3][1] = "GET")
    /\ lastEvent = "streamResolved" =>
         (status = "fetching_report" /\ pc = "report" /\ Len(requests) = 3)
    /\ status = "error" => failure \in {"reportNull", "reportThrows", "fallbackNotOk",
                                         "fallbackThrows"}

C6_Witness ==
  endedBy = EndClose /\ lastEvent = "streamResolved" /\ status = "fetching_report"

\* C7: after a non-success start response, a non-success stream open or a
\* transport error, no report fetch is ever issued, the report stays null and
\* the run ends with status error; after a start failure no stream is opened.
C7_EarlyFailureEndsRun ==
  failure \in {"start", "open", "transport"} =>
    /\ Len(requests) <= 2
    /\ \A i \in 1..Len(requests) : requests[i] \in {ReqStart, ReqStream(analysis_id)}
    /\ report = JNull
    /\ status \in {"analyzing", "error"}
    /\ pc \in {"stream", "done"}
    /\ pc = "stream" => promise = "rejected"
    /\ pc = "done" => status = "error"
    /\ failure = "start" => (requests = <<ReqStart>> /\ conn = "none")

C7_Witness ==
  failure = "transport" /\ pc = "done" /\ status = "error" /\ nmsgs > 0

C9_PreferredUrl ==
  lastEvent = "streamResolved" =>
    IF reportUrlSeen # "" THEN requests[3] = <<"GET", reportUrlSeen>>
    ELSE IF otherUrlsSeen # {} THEN \E u \in otherUrlsSeen : requests[3] = <<"GET", u>>
    ELSE requests[3] = <<"GET", "/api/analysis/", analysis_id, "/agent/report/json">>

\* C10: with status error the report is null and errorMsg is the message of
\* the error that was thrown; every failure that ends a run ends it in error.
C10_ErrorSurfaced ==
  /\ status = "error" =>
       ( /\ report = JNull
         /\ errorMsg = caught
         /\ failure = "start" => errorMsg = MsgStartFailed
         /\ failure = "open" => errorMsg = MsgSseFailed
         /\ failure = "transport" => errorMsg = MsgTransport
         /\ failure = "reportNull" => errorMsg = MsgNullRead
         /\ failure = "fallbackNotOk" => errorMsg = MsgReportFailed
         /\ failure \in {"startThrows", "reportThrows", "fallbackThrows"} =>
              errorMsg \in ThrowingOutcomes )
  /\ (pc = "done" /\ failure \in {"start", "startThrows", "open", "transport",
                                   "reportNull", "reportThrows", "fallbackNotOk",
                                   "fallbackThrows"}) => status = "error"
  /\ status # "error" => errorMsg = Null

C10_Witness ==
  status = "error" /\ failure = "open" /\ errorMsg = MsgSseFailed /\ report = JNull

\* The message is not one of the known event shapes: it does not parse, it
\* parses to null or to a scalar, or it is an object with none of the fields
\* agent, status, message, progress.
Malformed(m) ==
  \/ m.kind \in {"text", "null", "scalar"}
  \/ (m.kind = "object" /\ m.agent = "" /\ m.status = "" /\ ~m.hasMessage
        /\ ~m.hasProgress)

\* C11: no onmessage call rejects the stream promise, changes the status or
\* enters the catch block of the run; for a message that is not a known
\* event (invalid JSON, null, a scalar, an object without known fields) the
\* logs either stay as they are or gain one plain entry at the end.
C11_NoMessageFailsRun ==
  [][OnMessageStep =>
       /\ promise' \in {"pending", "resolved"}
       /\ rejection' = rejection
       /\ status' = status /\ status' = "analyzing"
       /\ errorMsg' = errorMsg /\ caught' = caught /\ pc' = pc
       /\ Malformed(lastMsg') =>
            \/ logs' = logs
            \/ /\ Len(logs') = Len(logs) + 1
               /\ SubSeq(logs', 1, Len(logs)) = logs
               /\ logs'[Len(logs')].type \in {"info", "plain"}
               /\ logs'[Len(logs')].site \in {"text", "msg"}
               /\ logs'[Len(logs')].agent = ""]_vars

\* The JSON text null has just been handled by the richer variant: it was
\* logged as plain text and the stream goes on.
C11_Witness ==
  /\ AfterOnMessage /\ Rich /\ lastMsg.kind = "null"
  /\ logs # <<>> /\ logs[Len(logs)].site = "text"
  /\ promise = "pending" /\ status = "analyzing" /\ conn = "open"

\* C12: except for the reset made by the click that starts a run, every step
\* that changes logs appends exactly one entry at the end and leaves the
\* entries already there as they were, in the same order.
C12_LogsAppendOnly ==
  [][(logs' # logs /\ lastEvent' # "analyze") =>
       /\ Len(logs') = Len(logs) + 1
       /\ SubSeq(logs', 1, Len(logs)) = logs]_vars

\* A run that ended in the catch block after the stream had logged messages.
C12_Witness ==
  /\ pc = "done" /\ status = "error" /\ nmsgs = 2
  /\ Len(logs) >= 4
  /\ logs[Len(logs)].site = "error" /\ logs[Len(logs) - 1].site # "error"

\* The canonical shape: analysis_id plus a complexity_analysis object with
\* the keys complexity, cases and recurrence.
Canonical(r) ==
  /\ r.t = "obj"
  /\ {"analysis_id", "complexity_analysis"} \subseteq DOMAIN r.f
  /\ Truthy(r.f["analysis_id"])
  /\ r.f["complexity_analysis"].t = "obj"
  /\ {"complexity", "cases", "recurrence"} \subseteq DOMAIN r.f["complexity_analysis"].f

\* C13: the report is null from the start of a run until the run's last
\* step, and a non-null report is the Reconciler's result for the body that
\* was fetched, of canonical shape, after the preferred fetch and after the
\* fallback fetch alike.
C13_ReportIsReconciled ==
  /\ pc \in {"start", "stream", "report", "fallback"} => report = JNull
  /\ report # JNull =>
       /\ pc = "done" /\ fetched.path \in {"preferred", "fallback"}
       /\ Canonical(report)
       /\ report = Reconcile(Wrap(fetched.wrap, fetched.inner), analysis_id)

\* The request is a report fetch (preferred or fallback).
IsReportFetch(q) == q[1] = "GET" /\ q # ReqStream(analysis_id)

\* C14: the phases of a run do not overlap.  While the start request is
\* outstanding nothing else has been requested and there is no connection;
\* the stream is requested second, after the start request returned an
\* analysis id; while the connection is connecting or open the promise is
\* pending and no report fetch has been issued; a report fetch is
\* outstanding only with the promise resolved and the connection closed.
C14_PhasesDoNotOverlap ==
  /\ pc = "start" => (requests = <<ReqStart>> /\ conn = "none" /\ promise = "none")
  /\ conn # "none" =>
       (analysis_id # Null /\ Len(requests) >= 2
        /\ requests[1] = ReqStart /\ requests[2] = ReqStream(analysis_id))
  /\ conn \in {"connecting", "open"} =>
       (pc = "stream" /\ promise = "pending" /\ Len(requests) = 2)
  /\ pc \in {"report", "fallback"} => (promise = "resolved" /\ conn = "closed")
  /\ \A i \in 1..Len(requests) :
       IsReportFetch(requests[i]) => (i >= 3 /\ promise = "resolved" /\ conn = "closed")

\* The report fetch is outstanding after a stream that delivered messages.
C14_Witness ==
  /\ pc = "report" /\ Len(requests) = 3 /\ IsReportFetch(requests[3])
  /\ conn = "closed" /\ promise = "resolved" /\ nmsgs > 0

\* A handleAnalyze workflow is suspended at one of its awaits.
RunInFlight == pc \in {"start", "stream", "report", "fallback"}

\* C15: while a run is in flight the status is analyzing or fetching_report
\* and the Analyze button is disabled, so no second workflow can start; when
\* the button is enabled no workflow is suspended and no stream handler of
\* an earlier run can still be called.
C15_SingleRunInFlight ==
  /\ RunInFlight <=> status \in {"analyzing", "fetching_report"}
  /\ RunInFlight => ~ButtonEnabled
  /\ ButtonEnabled => (conn \in {"none", "closed"} /\ promise # "pending")
  /\ lastEvent = "analyze" => (pc = "start" /\ requests = <<ReqStart>>)

\* The fallback fetch of a run is outstanding and the button is disabled.
C15_Witness ==
  pc = "fallback" /\ status = "fetching_report" /\ ~ButtonEnabled /\ Len(requests) = 4

\* C16: while the stream is open the status is analyzing, and the only steps
\* possible are a message, a transport error and a close; each of them
\* leaves the status analyzing, and the promise stays pending unless the
\* step is a transport error, a close or a message that signals the end.
C16_NoTimeout ==
  [][conn = "open" =>
       /\ status = "analyzing" /\ status' = "analyzing"
       /\ promise = "pending" /\ pc = "stream" /\ pc' = "stream"
       /\ lastEvent' \in {"onmessage", "onerror", "onclose"}
       /\ promise' # "pending" =>
            \/ lastEvent' \in {"onerror", "onclose"}
            \/ (lastEvent' = "onmessage" /\ endedBy' = EndSignal(lastMsg')
                  /\ OnMessageEffect(variant, lastMsg', capturedReportUrl, currentAgent).done)
       /\ promise' = "pending" => conn' = "open"]_vars

\* The stream is open, messages have been delivered, none of them ended it.
C16_Witness ==
  /\ conn = "open" /\ promise = "pending" /\ status = "analyzing"
  /\ AfterOnMessage /\ nmsgs >= 2

\* The positions, in the requests of the run, of the start request, of the
\* stream request and of the report fetches.
StartRequests == {i \in 1..Len(requests) : requests[i] = ReqStart}
StreamRequests == {i \in 1..Len(requests) : requests[i] = ReqStream(analysis_id)}
ReportFetches == {i \in 1..Len(requests) : IsReportFetch(requests[i])}

RECURSIVE PathGet(_, _)
PathGet(v, path) ==
  IF path = <<>> THEN v
  ELSE IF v.t = "obj" /\ Head(path) \in DOMAIN v.f
       THEN PathGet(v.f[Head(path)], Tail(path))
       ELSE Undef

\* The field holds a value to show: a non-empty string.
Present(v) == v.t = "str" /\ v.v # ""

ReportTheta == PathGet(report, <<"complexity_analysis", "complexity", "time", "theta">>)
ReportBigO == PathGet(report, <<"complexity_analysis", "complexity", "time", "big_o">>)

\* C18: for the report in state, the Time Complexity card shows theta of
\* complexity_analysis.complexity.time when it is present (a non-empty
\* value), otherwise big_o when it is present, otherwise "O(?)".
C18_TimeDisplay ==
  report # JNull =>
    TimeDisplay(report) =
      IF Present(ReportTheta) THEN Math(ReportTheta)
      ELSE IF Present(ReportBigO) THEN Math(ReportBigO)
      ELSE Math(Str("O(?)"))

\* A report with both theta and big_o is shown with its theta.
C18_Witness ==
  /\ status = "complete" /\ Present(ReportTheta) /\ Present(ReportBigO)
  /\ ReportTheta # ReportBigO
  /\ TimeDisplay(report) = Math(ReportTheta)

\* The form in which the steps of the report in state arrived.
StepsOfReport == PathGet(report, <<"complexity_analysis", "recurrence", "solution_steps">>)

\* C19: for every list of steps L (no step contains a newline), the report
\* whose solution_steps is the array L and the report whose solution_steps
\* is the string of the lines "- " + step joined by newlines both render
\* the list items L, in order.
C19_StepsRenderAlike ==
  lastEvent = "panelReportOk" =>
    /\ StepsOfReport \in {StepsValue("array", stepsSent), StepsValue("string", stepsSent)}
    /\ SolutionSteps(report).items = stepsSent
    /\ SolutionSteps(report).items =
         SolutionSteps(Reconcile(BodyWithSteps("array", stepsSent), analysis_id)).items

\* Two steps arrived as one string, the first beginning with a dash of its
\* own, and were rendered as two items.
C19_Witness ==
  /\ lastEvent = "panelReportOk" /\ StepsOfReport.t = "txt"
  /\ stepsSent = << <<"-", " ", "a">>, <<"a">> >>
  /\ SolutionSteps(report) = StepsView(TRUE, stepsSent)

\* The first of the fields agent, status, message, progress the object
\* carries ("none" when it carries none of them).
FirstBranch(m) ==
  IF m.agent # "" THEN "agent"
  ELSE IF m.status # "" THEN "status"
  ELSE IF m.hasMessage THEN "message"
  ELSE IF m.hasProgress THEN "progress"
  ELSE "none"

\* The end of the stream as the branches define it.
EndExpected(m) ==
  \/ (m.agent \in {"pipeline", "report"} /\ m.state = "finished")
  \/ (m.agent = "" /\ m.status \in {"completed", "finished"})

\* In the richer variant the entry logged for a parsed object is the one of
\* its first matching branch, and nothing is logged when no branch matches.
LoggedByFirstBranch(m) ==
  IF FirstBranch(m) = "none" THEN logs' = logs
  ELSE /\ Len(logs') = Len(logs) + 1
       /\ SubSeq(logs', 1, Len(logs)) = logs
       /\ logs'[Len(logs')].site = FirstBranch(m)

\* C20: an onmessage call for a message that parsed to an object acts by
\* the first matching branch only, and it signals the end of the stream
\* (abort and resolve) exactly when the agent is pipeline or report with
\* state finished, or there is no agent and the status is completed or
\* finished; an object with an agent and status completed is an agent
\* event and does not end the stream by its status.
C20_BranchPriority ==
  [][(OnMessageStep /\ Processed(lastMsg')) =>
       /\ Rich => LoggedByFirstBranch(lastMsg')
       /\ (promise' = "resolved" /\ aborted') <=> EndExpected(lastMsg')
       /\ (promise' = "pending" /\ ~aborted' /\ conn' = "open") <=> ~EndExpected(lastMsg')]_vars

\* The message reached JSON.parse in the richer variant and did not parse.
FailedParsing(m) == m.kind = "text" /\ ~IsEmptyMsg(m) /\ ~IsFiltered(m)

\* One plain-text entry is appended iff the trimmed text is non-empty and
\* shorter than the cap; otherwise the logs stay as they were.
PlainTextLogged(m) ==
  IF m.len - m.pad > 0 /\ m.len - m.pad < 500
  THEN /\ Len(logs') = Len(logs) + 1
       /\ SubSeq(logs', 1, Len(logs)) = logs
       /\ logs'[Len(logs')] = LogEntry("text", "info", "")
  ELSE logs' = logs

\* C21: in the richer variant, an onmessage call for a text that fails JSON
\* parsing appends a plain-text entry iff the trimmed text is non-empty and
\* under 500 characters, and signals the end of the stream whenever the
\* text contains one of the completion phrases.
C21_PlainText ==
  [][(OnMessageStep /\ Rich /\ FailedParsing(lastMsg')) =>
       /\ PlainTextLogged(lastMsg')
       /\ HasCompletionPhrase(lastMsg') => (promise' = "resolved" /\ aborted')]_vars

\* C22: every onmessage call, whatever the message, leaves the logs as they
\* were or appends exactly one entry at the end.
C22_AtMostOneEntry ==
  [][OnMessageStep =>
       \/ logs' = logs
       \/ (Len(logs') = Len(logs) + 1 /\ SubSeq(logs', 1, Len(logs)) = logs)]_vars

\* Two messages were delivered to the richer variant: one was logged, the
\* other one was dropped.
C22_Witness ==
  /\ AfterOnMessage /\ Rich /\ nmsgs = 2 /\ conn = "open"
  /\ Len(logs) = 4 /\ logs[4].site = "agent"

\* The payload without its envelope, and the object the nested fields are
\* looked up in first.
Unwrapped(body) == JsOr(JsOr(Field(body, "data"), Field(body, "report")), body)
Nested(u) == JsOr(Field(u, "complexity_analysis"), u)

\* The fields the display reads besides the complexity analysis.
PassedThrough ==
  {"explanation", "artifacts", "validation", "hints", "spec",
   "pseudocode_normalized", "invariant_or_rule"}
DisplayFields == PassedThrough \cup {"diagram"}

\* complexity, cases and recurrence come from the nested object when it has
\* them and from the top level otherwise; the fields of keys that are
\* present in the unwrapped payload have the same value in the report.
ReconciledFrom(r, u, keys) ==
  /\ \A k \in {"complexity", "cases", "recurrence"} :
       PathGet(r, <<"complexity_analysis", k>>) =
         IF Truthy(Field(Nested(u), k)) THEN Field(Nested(u), k) ELSE Field(u, k)
  /\ \A k \in keys : Truthy(Field(u, k)) => Field(r, k) = Field(u, k)

\* C23: the report stored after a successful preferred fetch takes
\* complexity, cases and recurrence from the nested complexity_analysis
\* when present and from the top level otherwise, and carries every other
\* field the display reads (explanation, artifacts, diagram, validation,
\* hints, spec, pseudocode_normalized, invariant_or_rule) unchanged.
C23_FieldsPassThrough ==
  (status = "complete" /\ fetched.path = "preferred") =>
    ReconciledFrom(report, Unwrapped(Wrap(fetched.wrap, fetched.inner)), DisplayFields)

SpaceTheta == PathGet(report, <<"complexity_analysis", "complexity", "space", "theta">>)
SpaceBigO == PathGet(report, <<"complexity_analysis", "complexity", "space", "big_o">>)

\* C24: for the report in state, the Space Complexity card shows theta of
\* complexity_analysis.complexity.space when it is present, otherwise big_o
\* when it is present, otherwise the placeholder "O(?)".
C24_SpaceDisplay ==
  report # JNull =>
    SpaceDisplay(report) =
      IF Present(SpaceTheta) THEN Math(SpaceTheta)
      ELSE IF Present(SpaceBigO) THEN Math(SpaceBigO)
      ELSE Plain(Str("O(?)"))

\* C25: in every state, status complete implies a non-null report; status
\* analyzing or fetching_report implies a null report and a null errorMsg;
\* errorMsg is non-null only with status error.
C25_StatusReportErrorMsg ==
  /\ status = "complete" => report # JNull
  /\ status \in {"analyzing", "fetching_report"} => (report = JNull /\ errorMsg = Null)
  /\ errorMsg # Null => status = "error"

\* C26: an onmessage call made after the stream promise has settled
\* appends no log entry and changes neither currentAgent nor the captured
\* report URL.
C26_NothingAfterSettlement ==
  [][(lastEvent' \in {"onmessage", "onlatemessage"} /\ nmsgs' = nmsgs + 1
        /\ promise # "pending") =>
       /\ logs' = logs
       /\ currentAgent' = currentAgent
       /\ capturedReportUrl' = capturedReportUrl]_vars

(* C27: the current-agent indicator is cleared when the stream ends: in    *)
(* every reachable state whose status is not "analyzing" (fetching_report, *)
(* complete, error) currentAgent is null, whichever way the stream ended.  *)
C27_AgentClearedAfterStream ==
  status # "analyzing" => currentAgent = Null

(* C28: liveness.  Provided every HTTP request returns and the event       *)
(* stream delivers an end-of-stream message, an error or a close, every    *)
(* started run reaches status "complete" or "error", and that status then  *)
(* changes only when the next run starts.                                  *)
C28_RunTerminates ==
  /\ (status = "analyzing") ~> (status \in {"complete", "error"})
  /\ [][(status \in {"complete", "error"} /\ status' # status) => lastEvent' = "analyze"]_vars

\* Every render call of the component has settled.
Settled == mounted /\ rendering = <<>>

(* C29: MermaidDiagram recovers from errors.  Once the renders have        *)
(* settled, a chart prop that is non-empty and that the renderer accepts   *)
(* is shown: error is null and the container holds the rendered diagram,   *)
(* whatever the charts before it did.                                      *)
C29_Recovers ==
  (Settled /\ ~chart.empty /\ Sanitize(chart).ok) =>
    (error = Null /\ innerHTML = Svg(Sanitize(chart)))

\* The viewer shows nothing and is idle.
ViewerBlank ==
  /\ viewerStatus = "idle"
  /\ viewerLogs = <<>>
  /\ markdownContent = <<>>
  /\ diagramCode = ""
\* Every log entry and markdown part on display was written by the run
\* started last.
OnlyCurrentRun ==
  /\ \A i \in 1..Len(viewerLogs) : viewerLogs[i].run = runs
  /\ \A i \in 1..Len(markdownContent) : markdownContent[i].run = runs

(* C30: Reset is effective.  From a press of Reset to the next Analyze the *)
(* status is "idle" and logs, markdownContent and diagramCode are empty,   *)
(* also when the delayed updates of a run were pending at the press; and   *)
(* no update of an earlier run shows in the state of a later run.          *)
C30_ResetIsEffective ==
  /\ resetPressed => ViewerBlank
  /\ OnlyCurrentRun

====
